---- MODULE Spec2Model ----
(***************************************************************************)
(* Model of the Asteroid Mining Mission Planner dashboard (src/app.py).    *)
(*                                                                         *)
(* The program is a Streamlit script: every change of a sidebar control or *)
(* of the orbit selector re-executes the whole script top to bottom.  One  *)
(* action of this model is one such user interaction followed by the full  *)
(* script run it triggers.                                                 *)
(*                                                                         *)
(* Numbers.  Every decimal of the program (dataset columns, slider values, *)
(* whose step is 0.01) is held as an integer number of hundredths:         *)
(* 0.49 km is 49, 10000 billion USD is 1000000, 2.92 AU is 292.  The       *)
(* profit band is a product of Python floats and is computed in binary64   *)
(* arithmetic (see "Binary doubles").  The orbit drawn is measured in      *)
(* units of 100 m.                                                         *)
(***************************************************************************)
EXTENDS Integers, Sequences, FiniteSets

VARIABLES
    cache,           \* the value memoized by @st.cache_data for load_asteroids
    df,              \* the table bound at line 32 in the current run
    selected_types,  \* value of the spectral-type multiselect
    min_diam,        \* value of the "Min Diameter" slider
    min_value,       \* value of the "Min Est. Value" slider
    max_dv,          \* value of the "Max Delta-V" slider
    df_filt,         \* the filtered table of the current run
    metrics,         \* the st.metric widgets emitted by the profit loop
    scatter,         \* the scatter charts emitted by the current run (none or one)
    options,         \* the options the orbit selectbox was rendered with
    selected,        \* the value returned by the orbit selectbox, or None
    row,             \* the rows bound to `row` at line 100 (none or one)
    plotted,         \* the orbit traces handed to the plotter at line 105
    orbit,           \* the orbit charts emitted at line 106 (none or one)
    info,            \* the st.info message of the current run, or None
    error,           \* the exception that ended the current run, or None
    has_fig          \* whether the installed OrbitPlotter2D has an attribute `fig`

vars == <<cache, df, selected_types, min_diam, min_value, max_dv, df_filt,
          metrics, scatter, options, selected, row, plotted, orbit, info, error,
          has_fig>>

None == "None"
NoPlot == <<>>
IndexError == "IndexError"
AttributeError == "AttributeError"

Range(s) == {s[k] : k \in 1..Len(s)}

(***************************************************************************)
(* The dataset: the column dictionary of load_asteroids and the DataFrame  *)
(* built from it, one row per position.                                    *)
(***************************************************************************)
data ==
    [name |-> <<"16 Psyche", "Ryugu", "Bennu", "1 Ceres", "4 Vesta", "433 Eros">>,
     a |-> <<292, 119, 113, 277, 236, 146>>,
     e |-> <<14, 19, 20, 8, 10, 22>>,
     i |-> <<700, 590, 600, 1060, 710, 1080>>,
     diameter_km |-> <<22600, 90, 49, 94600, 52500, 1680>>,
     est_value_billion_usd |-> <<1000000, 880, 67, 100000, 50000, 10>>,
     spectral_type |-> <<"M", "C", "B", "C", "V", "S">>,
     delta_v_km_s |-> <<550, 460, 510, 900, 780, 580>>]

DataFrame(cols) ==
    [k \in 1..Len(cols.name) |->
        [name |-> cols.name[k],
         a |-> cols.a[k],
         e |-> cols.e[k],
         i |-> cols.i[k],
         diameter_km |-> cols.diameter_km[k],
         est_value_billion_usd |-> cols.est_value_billion_usd[k],
         spectral_type |-> cols.spectral_type[k],
         delta_v_km_s |-> cols.delta_v_km_s[k]]]

load_asteroids == DataFrame(data)

\* df['spectral_type'].unique(): the distinct values (the multiselect's options)
TypeOptions == Range(data.spectral_type)

(***************************************************************************)
(* Sidebar controls: slider ranges and defaults (hundredths).              *)
(***************************************************************************)
MinDiamLo == 10
MinDiamHi == 100000
MinDiamDefault == 50
MinValueLo == 10
MinValueHi == 2000000
MinValueDefault == 100
MaxDvLo == 400
MaxDvHi == 1500
MaxDvDefault == 700

\* The slider positions explored.  They include both ends of each range, the
\* default, and positions that coincide with a value of the dataset, so that
\* the inclusive comparisons are exercised.
DiamStops == {MinDiamLo, 49, MinDiamDefault, 90, 1680, MinDiamHi}
ValueStops == {MinValueLo, 67, MinValueDefault, 880, 50000, MinValueHi}
DvStops == {MaxDvLo, 460, 550, MaxDvDefault, 780, MaxDvHi}

(***************************************************************************)
(* The filter (lines 53-58): four boolean columns combined with &, then    *)
(* boolean-mask row selection, which keeps the rows in their order.        *)
(***************************************************************************)
isin_emptyall(x, values) == values = {} \/ x \in values

isin(x, values) == x \in values

Mask_strict(d, types, mn_diam, mn_value, mx_dv) ==
    [k \in 1..Len(d) |->
        /\ isin(d[k].spectral_type, types)
        /\ d[k].diameter_km > mn_diam
        /\ d[k].est_value_billion_usd >= mn_value
        /\ d[k].delta_v_km_s <= mx_dv]

Mask_novalue(d, types, mn_diam, mn_value, mx_dv) ==
    [k \in 1..Len(d) |->
        /\ isin(d[k].spectral_type, types)
        /\ d[k].diameter_km >= mn_diam
        /\ d[k].delta_v_km_s <= mx_dv]

Mask_dvflip(d, types, mn_diam, mn_value, mx_dv) ==
    [k \in 1..Len(d) |->
        /\ isin(d[k].spectral_type, types)
        /\ d[k].diameter_km >= mn_diam
        /\ d[k].est_value_billion_usd >= mn_value
        /\ d[k].delta_v_km_s >= mx_dv]

Mask(d, types, mn_diam, mn_value, mx_dv) ==
    [k \in 1..Len(d) |->
        /\ isin(d[k].spectral_type, types)
        /\ d[k].diameter_km >= mn_diam
        /\ d[k].est_value_billion_usd >= mn_value
        /\ d[k].delta_v_km_s <= mx_dv]

RECURSIVE TakeRows(_, _, _)
TakeRows(d, mask, k) ==
    IF k > Len(d) THEN <<>>
    ELSE IF mask[k] THEN <<d[k]>> \o TakeRows(d, mask, k + 1)
    ELSE TakeRows(d, mask, k + 1)

BoolIndex_skipfirst(d, mask) == TakeRows(d, mask, 2)

BoolIndex(d, mask) == TakeRows(d, mask, 1)

ApplyFilters(d, types, mn_diam, mn_value, mx_dv) ==
    BoolIndex(d, Mask(d, types, mn_diam, mn_value, mx_dv))

(***************************************************************************)
(* Binary doubles.  The profit loop multiplies Python floats, so the band  *)
(* is computed here as IEEE 754 binary64 does it.  A positive double is    *)
(* [m, e], standing for m * 2^e with 2^52 <= m < 2^53; m is a natural      *)
(* number written as a sequence of base-2^15 limbs, least significant      *)
(* first, without leading zero limbs.  Zero, subnormals, infinities and    *)
(* NaN do not occur: every value handled lies between 0.06 and 28000.      *)
(***************************************************************************)
LimbBase == 32768
LimbBits == 15
MantBits == 53

RECURSIVE Pow2(_)
Pow2(k) == IF k = 0 THEN 1 ELSE 2 * Pow2(k - 1)

RECURSIVE BitLenSmall(_)
BitLenSmall(n) == IF n = 0 THEN 0 ELSE 1 + BitLenSmall(n \div 2)

RECURSIVE Norm(_)
Norm(x) ==
    IF x = <<>> THEN <<>>
    ELSE IF x[Len(x)] = 0 THEN Norm(SubSeq(x, 1, Len(x) - 1))
    ELSE x

RECURSIVE BFromInt(_)
BFromInt(n) ==
    IF n = 0 THEN <<>> ELSE <<n % LimbBase>> \o BFromInt(n \div LimbBase)

RECURSIVE BToInt(_)
BToInt(x) == IF x = <<>> THEN 0 ELSE x[1] + LimbBase * BToInt(Tail(x))

BitLen(x) ==
    IF x = <<>> THEN 0 ELSE LimbBits * (Len(x) - 1) + BitLenSmall(x[Len(x)])

IsOdd(x) == x # <<>> /\ x[1] % 2 = 1

RECURSIVE BAdd(_, _, _)
BAdd(x, y, carry) ==
    IF x = <<>> /\ y = <<>> THEN BFromInt(carry)
    ELSE LET t == (IF x = <<>> THEN 0 ELSE x[1])
                  + (IF y = <<>> THEN 0 ELSE y[1]) + carry
         IN  <<t % LimbBase>>
             \o BAdd(IF x = <<>> THEN <<>> ELSE Tail(x),
                     IF y = <<>> THEN <<>> ELSE Tail(y),
                     t \div LimbBase)

\* x * c + carry, for 0 <= c < 2^15
RECURSIVE BMulSmall(_, _, _)
BMulSmall(x, c, carry) ==
    IF x = <<>> THEN BFromInt(carry)
    ELSE LET t == x[1] * c + carry
         IN  <<t % LimbBase>> \o BMulSmall(Tail(x), c, t \div LimbBase)

ShiftLimbs(x, w) == IF x = <<>> THEN <<>> ELSE [k \in 1..w |-> 0] \o x

RECURSIVE BMul(_, _)
BMul(x, y) ==
    IF x = <<>> THEN <<>>
    ELSE Norm(BAdd(BMulSmall(y, x[1], 0), ShiftLimbs(BMul(Tail(x), y), 1), 0))

\* the limbs 1..k of x, preceded by the remainder rem, divided by d (d <= 2^15)
RECURSIVE DivFrom(_, _, _, _)
DivFrom(x, d, k, rem) ==
    IF k = 0 THEN [q |-> <<>>, r |-> rem]
    ELSE LET t == rem * LimbBase + x[k]
             lower == DivFrom(x, d, k - 1, t % d)
         IN  [q |-> lower.q \o <<t \div d>>, r |-> lower.r]

BDivSmall(x, d) ==
    LET res == DivFrom(x, d, Len(x), 0)
    IN  [q |-> Norm(res.q), r |-> res.r]

\* x * 2^k
Shl(x, k) ==
    ShiftLimbs(Norm(BMulSmall(x, Pow2(k % LimbBits), 0)), k \div LimbBits)

\* floor(x / 2^s)
ShrFloor(x, s) ==
    LET w == s \div LimbBits
    IN  IF w >= Len(x) THEN <<>>
        ELSE BDivSmall(SubSeq(x, w + 1, Len(x)), Pow2(s % LimbBits)).q

\* x is a multiple of 2^s
LowBitsZero(x, s) ==
    LET w == s \div LimbBits
    IN  /\ \A k \in 1..w : k <= Len(x) => x[k] = 0
        /\ w < Len(x) => x[w + 1] % Pow2(s % LimbBits) = 0

\* x / 2^s rounded to the nearest integer, ties to even (s >= 1)
RoundShr(x, s) ==
    LET t == BAdd(x, Shl(<<1>>, s - 1), 0)
        q == ShrFloor(t, s)
    IN  IF LowBitsZero(t, s) /\ IsOdd(q) THEN Norm([q EXCEPT ![1] = @ - 1])
        ELSE q

\* a rounded mantissa that reached 2^53 is renormalised
Normalise(m, e) ==
    IF BitLen(m) > MantBits THEN [m |-> ShrFloor(m, 1), e |-> e + 1]
    ELSE [m |-> m, e |-> e]

\* the double nearest to num / den (a decimal literal, or an integer), for
\* small positive integers num and den <= 2^15
DoubleOf(num, den) ==
    LET k0 == MantBits + BitLenSmall(den) - BitLenSmall(num)
        q0 == BDivSmall(Shl(BFromInt(num), k0), den)
        k == IF BitLen(q0.q) > MantBits THEN k0 - 1 ELSE k0
        d == IF k = k0 THEN q0 ELSE BDivSmall(Shl(BFromInt(num), k), den)
        up == 2 * d.r > den \/ (2 * d.r = den /\ IsOdd(d.q))
    IN  Normalise(IF up THEN BAdd(d.q, <<1>>, 0) ELSE d.q, 0 - k)

\* x * y in binary64, round to nearest, ties to even
DoubleMul(x, y) ==
    LET p == BMul(x.m, y.m)
        s == BitLen(p) - MantBits
    IN  Normalise(RoundShr(p, s), x.e + y.e + s)

(***************************************************************************)
(* Profit bands (lines 72-80).  base_value arrives in hundredths (the      *)
(* decimal of the dataset) and is the double of that decimal; low and high *)
(* are doubles; the widget shows each formatted with ',.0f'.               *)
(***************************************************************************)
\* format(x, ',.0f'): the integer nearest to the exact value of the double,
\* ties to even (the thousands separator is not modelled)
Fmt0(x) ==
    IF x.e >= 0 THEN BToInt(Shl(x.m, x.e))
    ELSE IF 0 - x.e > MantBits + 1 THEN 0
    ELSE BToInt(RoundShr(x.m, 0 - x.e))

ProfitBand_40(base_value) ==
    [low |-> DoubleMul(DoubleOf(base_value, 100), DoubleOf(4, 10)),
     high |-> DoubleMul(DoubleOf(base_value, 100), DoubleOf(14, 10))]

ProfitBand(base_value) ==
    [low |-> DoubleMul(DoubleOf(base_value, 100), DoubleOf(6, 10)),
     high |-> DoubleMul(DoubleOf(base_value, 100), DoubleOf(14, 10))]

Metric(r) ==
    LET band == ProfitBand(r.est_value_billion_usd)
    IN  [label |-> r.name,
         base_value |-> DoubleOf(r.est_value_billion_usd, 100),
         low |-> band.low,
         high |-> band.high,
         value |-> Fmt0(DoubleOf(r.est_value_billion_usd, 100)),
         delta |-> <<Fmt0(band.low), Fmt0(band.high)>>]

ProfitMetrics(d) == [k \in 1..Len(d) |-> Metric(d[k])]

(***************************************************************************)
(* The plot section (lines 85-108).                                        *)
(***************************************************************************)
ShowPlots_many(d) == Len(d) > 1

\* not df_filt.empty
ShowPlots(d) == Len(d) > 0

ScatterPoints(d) ==
    [k \in 1..Len(d) |->
        [x |-> d[k].a, y |-> d[k].i, size |-> d[k].diameter_km,
         color |-> d[k].spectral_type, hover_name |-> d[k].name]]

NameList(d) == [k \in 1..Len(d) |-> d[k].name]

\* st.selectbox(label, opts, index): a selectbox rendered with the options it
\* had in the previous run is the same widget and returns its stored value;
\* rendered with other options (or not rendered in the previous run) it is a
\* new widget and returns opts[index].  index is 0-based.
Selectbox_stale(opts, index, prevOpts, prevValue) ==
    IF prevValue # None THEN prevValue
    ELSE IF opts = <<>> THEN None
    ELSE opts[index + 1]

Selectbox(opts, index, prevOpts, prevValue) ==
    IF opts = <<>> THEN None
    ELSE IF prevOpts = opts THEN prevValue
    ELSE opts[index + 1]

\* df_filt[df_filt['name'] == selected]
LookupRows(d, nm) == BoolIndex(d, [k \in 1..Len(d) |-> d[k].name = nm])

(***************************************************************************)
(* One script run.                                                         *)
(***************************************************************************)
\* line 32: the memoized table is returned; the memo keeps it
LoadAsteroids_inplace ==
    /\ df' = cache
    /\ cache' = ApplyFilters(df', selected_types', min_diam', min_value', max_dv')

LoadAsteroids ==
    /\ df' = cache
    /\ cache' = cache

\* lengths of the orbit, in units of 100 m: 1 * u.AU (149 597 870 700 m) and
\* the radius of the attractor, Sun.R (695 700 km)
AU == 1495978707
R_Sun == 6957000

\* Orbit.circular(attractor, alt): alt is the altitude above the attractor's
\* surface, so the semi-major axis is attractor.R + alt; eccentricity and
\* inclination are 0
Orbit_circular(attractor, R, alt) ==
    [attractor |-> attractor, a |-> R + alt, ecc |-> 0, inc |-> 0]

\* lines 103-105: the orbit handed to the plotter is
\* Orbit.circular(Sun, 1 * u.AU), labelled with the selection
PlotOrbit_elements ==
    plotted' = <<[attractor |-> "Sun", a |-> R_Sun + 1 * AU, ecc |-> row'[1].e,
                  inc |-> row'[1].i, label |-> selected']>>

PlotOrbit ==
    LET orb == Orbit_circular("Sun", R_Sun, 1 * AU)
    IN  plotted' = <<[attractor |-> orb.attractor, a |-> orb.a, ecc |-> orb.ecc,
                      inc |-> orb.inc, label |-> selected']>>

\* line 106: st.plotly_chart(plotter.fig, ...).  Reading plotter.fig raises
\* AttributeError when OrbitPlotter2D defines no such attribute (poliastro
\* keeps its figure in _figure and returns it from plot() and show()); which
\* of the two happens is a property of the installed library, fixed for the
\* session.
ShowOrbit ==
    IF has_fig
    THEN /\ orbit' = plotted'
         /\ error' = None
    ELSE /\ orbit' = NoPlot
         /\ error' = AttributeError

\* The script, run with the control values given; widgetValue is the value
\* the orbit selectbox holds in the session when the run starts.
Rerun(types, mn_diam, mn_value, mx_dv, widgetValue) ==
    /\ has_fig' = has_fig
    /\ selected_types' = types
    /\ min_diam' = mn_diam
    /\ min_value' = mn_value
    /\ max_dv' = mx_dv
    /\ LoadAsteroids
    /\ df_filt' = ApplyFilters(df', types, mn_diam, mn_value, mx_dv)
    /\ metrics' = ProfitMetrics(df_filt')
    /\ IF ShowPlots(df_filt')
       THEN /\ scatter' = <<ScatterPoints(df_filt')>>
            /\ options' = NameList(df_filt')
            /\ selected' = Selectbox(options', 0, options, widgetValue)
            /\ LET hits == LookupRows(df_filt', selected')
               IN  IF hits = <<>>
                   THEN \* .iloc[0] raises; the run stops before the orbit
                        /\ row' = <<>>
                        /\ error' = IndexError
                        /\ plotted' = <<>>
                        /\ orbit' = NoPlot
                   ELSE /\ row' = <<hits[1]>>
                        /\ PlotOrbit
                        /\ ShowOrbit
            /\ info' = None
       ELSE /\ scatter' = NoPlot
            /\ options' = <<>>
            /\ selected' = None
            /\ row' = <<>>
            /\ error' = None
            /\ plotted' = <<>>
            /\ orbit' = NoPlot
            /\ info' = "No asteroids match your filters."

(***************************************************************************)
(* User interactions.                                                      *)
(***************************************************************************)
AddType ==
    \E t \in TypeOptions \ selected_types :
        Rerun(selected_types \cup {t}, min_diam, min_value, max_dv, selected)

RemoveType ==
    \E t \in selected_types :
        Rerun(selected_types \ {t}, min_diam, min_value, max_dv, selected)

ClearTypes ==
    /\ selected_types # {}
    /\ Rerun({}, min_diam, min_value, max_dv, selected)

SetMinDiam ==
    \E d \in DiamStops \ {min_diam} :
        Rerun(selected_types, d, min_value, max_dv, selected)

SetMinValue ==
    \E v \in ValueStops \ {min_value} :
        Rerun(selected_types, min_diam, v, max_dv, selected)

SetMaxDv ==
    \E dv \in DvStops \ {max_dv} :
        Rerun(selected_types, min_diam, min_value, dv, selected)

SelectOrbit ==
    \E nm \in Range(options) \ {selected} :
        Rerun(selected_types, min_diam, min_value, max_dv, nm)

\* The page after its first run: memo filled, controls at their defaults.
\* The first run is the script run with those defaults, so its plot section is
\* the one of Rerun.
Init ==
    /\ has_fig \in BOOLEAN
    /\ cache = load_asteroids
    /\ df = load_asteroids
    /\ selected_types = TypeOptions
    /\ min_diam = MinDiamDefault
    /\ min_value = MinValueDefault
    /\ max_dv = MaxDvDefault
    /\ df_filt = ApplyFilters(df, selected_types, min_diam, min_value, max_dv)
    /\ metrics = ProfitMetrics(df_filt)
    /\ scatter = IF ShowPlots(df_filt) THEN <<ScatterPoints(df_filt)>> ELSE NoPlot
    /\ options = IF ShowPlots(df_filt) THEN NameList(df_filt) ELSE <<>>
    /\ selected = IF ShowPlots(df_filt) THEN Selectbox(options, 0, <<>>, None) ELSE None
    /\ row = IF ShowPlots(df_filt) /\ LookupRows(df_filt, selected) # <<>>
             THEN <<LookupRows(df_filt, selected)[1]>> ELSE <<>>
    /\ plotted = IF ShowPlots(df_filt) /\ row # <<>>
                 THEN <<[attractor |-> "Sun",
                         a |-> Orbit_circular("Sun", R_Sun, 1 * AU).a,
                         ecc |-> 0, inc |-> 0, label |-> selected]>>
                 ELSE <<>>
    /\ orbit = IF has_fig THEN plotted ELSE NoPlot
    /\ error = IF ShowPlots(df_filt) /\ row = <<>> THEN IndexError
               ELSE IF plotted # <<>> /\ ~has_fig THEN AttributeError
               ELSE None
    /\ info = IF ShowPlots(df_filt) THEN None ELSE "No asteroids match your filters."

Next ==
    \/ AddType
    \/ RemoveType
    \/ ClearTypes
    \/ SetMinDiam
    \/ SetMinValue
    \/ SetMaxDv
    \/ SelectOrbit

Spec == Init /\ [][Next]_vars

(***************************************************************************)
(* Properties.                                                             *)
(***************************************************************************)
EmptyMessage == "No asteroids match your filters."

DefaultControls ==
    /\ selected_types = {"M", "C", "B", "V", "S"}
    /\ min_diam = 50
    /\ min_value = 100
    /\ max_dv = 700

\* the position of a row in a table whose rows are distinct
Pos(d, r) == CHOOSE k \in 1..Len(d) : d[k] = r

Satisfies(r) ==
    /\ r.spectral_type \in selected_types
    /\ r.diameter_km >= min_diam
    /\ r.est_value_billion_usd >= min_value
    /\ r.delta_v_km_s <= max_dv

\* C1: the filtered set of a render is exactly the dataset records whose
\* spectral type is accepted, whose diameter and value are at least the
\* minimums and whose delta-v is at most the maximum (all inclusive), listed
\* in their original relative order.
Thm_C1_FilterExact ==
    /\ \A k \in 1..Len(df) : (df[k] \in Range(df_filt)) <=> Satisfies(df[k])
    /\ \A p \in 1..Len(df_filt) : df_filt[p] \in Range(df)
    /\ \A p, q \in 1..Len(df_filt) :
           p < q => Pos(df, df_filt[p]) < Pos(df, df_filt[q])

\* a threshold that equals a record's own value keeps the record, while
\* another record is filtered out
Wit_C1_InclusiveThreshold ==
    /\ min_diam = 90
    /\ "Ryugu" \in Range(NameList(df_filt))
    /\ Len(df_filt) >= 2
    /\ Len(df_filt) < Len(df)

\* C2 as stated: with the default controls the filtered set is exactly
\* {16 Psyche, Ryugu, 433 Eros}.
Orig_C2_DefaultThree ==
    DefaultControls =>
        Range(NameList(df_filt)) = {"16 Psyche", "Ryugu", "433 Eros"}

\* C2 (amended): with the default controls the filtered set excludes Bennu,
\* 1 Ceres, 4 Vesta and also 433 Eros (value 0.1 < 1.0), and is exactly
\* 16 Psyche followed by Ryugu.
Thm_C2_DefaultTwo ==
    DefaultControls => NameList(df_filt) = <<"16 Psyche", "Ryugu">>

Wit_C2_DefaultRender ==
    /\ DefaultControls
    /\ Len(df_filt) = 2
    /\ "433 Eros" \notin Range(NameList(df_filt))
    /\ Len(scatter) = 1

\* C3 as stated: the empty-state message is shown, and no scatter plot,
\* orbit plot or orbit selector is produced, exactly when the filtered set is
\* empty; when it is not empty both plots are produced and the message is not
\* shown.
Orig_C3_EmptyStateIff ==
    /\ df_filt = <<>> =>
           /\ info = EmptyMessage
           /\ scatter = <<>>
           /\ orbit = <<>>
           /\ options = <<>>
           /\ selected = None
    /\ df_filt # <<>> =>
           /\ info = None
           /\ Len(scatter) = 1
           /\ Len(scatter[1]) = Len(df_filt)
           /\ Len(orbit) = 1
           /\ options # <<>>

\* C4: with no accepted spectral type the filtered set is empty whatever the
\* three thresholds are, the empty-state message is shown and no plot is
\* rendered.
Thm_C4_NoTypesEmpty ==
    selected_types = {} =>
        /\ df_filt = <<>>
        /\ info = EmptyMessage
        /\ scatter = <<>>
        /\ orbit = <<>>

\* no type accepted while the thresholds are the loosest possible
Wit_C4_NoTypesLoosest ==
    /\ selected_types = {}
    /\ min_diam = MinDiamLo
    /\ min_value = MinValueLo
    /\ max_dv = MaxDvHi
    /\ info = EmptyMessage

\* C5: a control change that only raises minDiameter, raises minValue or
\* lowers maxDeltaV (accepted types unchanged) yields a filtered set that is a
\* subset of the previous one, so its size does not increase.
Thm_C5_Monotone ==
    [][ ( /\ selected_types' = selected_types
          /\ min_diam' >= min_diam
          /\ min_value' >= min_value
          /\ max_dv' <= max_dv )
        => ( /\ Range(df_filt') \subseteq Range(df_filt)
             /\ Len(df_filt') <= Len(df_filt) ) ]_vars

\* a delta-v limit below the default has removed records that the default
\* limit keeps
Wit_C5_StricterShrinks ==
    /\ max_dv < MaxDvDefault
    /\ df_filt # <<>>
    /\ Len(df_filt) <
         Len(ApplyFilters(df, selected_types, min_diam, min_value, MaxDvDefault))

\* C6: filtering the filtered result again with the same criteria returns
\* the same records.
Thm_C6_Idempotent ==
    ApplyFilters(df_filt, selected_types, min_diam, min_value, max_dv) = df_filt

Wit_C6_ProperSubset ==
    /\ Len(df_filt) >= 2
    /\ Len(df_filt) < Len(df)
    /\ ~DefaultControls

\* C7: each record of the filtered set gets exactly one profit band, with
\* low = 0.6 * value and high = 1.4 * value (the products of Python floats,
\* that is, of binary doubles) whatever the other records and the controls
\* are; 16 Psyche (value 10000) gets low 6000 and high 14000.
Thm_C7_ProfitBand ==
    /\ Len(metrics) = Len(df_filt)
    /\ \A k \in 1..Len(metrics) :
           LET value == DoubleOf(df_filt[k].est_value_billion_usd, 100)
           IN  /\ metrics[k].label = df_filt[k].name
               /\ metrics[k].low = DoubleMul(DoubleOf(6, 10), value)
               /\ metrics[k].high = DoubleMul(DoubleOf(14, 10), value)
               /\ metrics[k].label = "16 Psyche" =>
                      /\ value = DoubleOf(10000, 1)
                      /\ metrics[k].low = DoubleOf(6000, 1)
                      /\ metrics[k].high = DoubleOf(14000, 1)

Wit_C7_PsycheBand ==
    /\ ~DefaultControls
    /\ Len(metrics) >= 3
    /\ \E k \in 1..Len(metrics) :
           /\ metrics[k].label = "16 Psyche"
           /\ metrics[k].low = DoubleOf(6000, 1)
           /\ metrics[k].high = DoubleOf(14000, 1)
           /\ metrics[k].delta = <<6000, 14000>>

\* C8: after any sequence of control changes the dataset is the six records
\* of the first load, unchanged, and the filtered set of a render is the
\* filter of that dataset under the current control values only.
Thm_C8_DatasetUnchanged ==
    /\ df = load_asteroids
    /\ cache = load_asteroids
    /\ Len(df) = 6
    /\ df_filt = ApplyFilters(load_asteroids, selected_types, min_diam,
                              min_value, max_dv)

\* a render whose filter kept only part of the dataset
Wit_C8_AfterFiltering ==
    /\ ~DefaultControls
    /\ Len(df_filt) \in 1..5
    /\ Len(df) = 6
    /\ Len(metrics) = Len(df_filt)

OrbitElements(t) == [attractor |-> t.attractor, a |-> t.a, ecc |-> t.ecc, inc |-> t.inc]

\* C9 as stated: the orbit plotted is the same circular 1 AU orbit for every
\* selected record; only its label, the selected name, differs.
Orig_C9_OneAU ==
    plotted # <<>> =>
        /\ OrbitElements(plotted[1]) =
               [attractor |-> "Sun", a |-> 1495978707, ecc |-> 0, inc |-> 0]
        /\ plotted[1].label = selected

\* C9 (amended): the orbit handed to the plotter is the same circular orbit
\* around the Sun for every selected record, the one built by
\* Orbit.circular(Sun, 1 AU), whose radius is R_Sun + 1 AU and not 1 AU; any
\* two consecutive renders that plot an orbit (in particular two that differ
\* only in the selection) plot the same orbit, and only the label, the
\* selected name, differs.
Thm_C9_FixedOrbit ==
    /\ [](plotted # <<>> =>
            /\ Len(plotted) = 1
            /\ Len(row) = 1
            /\ plotted[1].ecc = 0
            /\ plotted[1].inc = 0
            /\ plotted[1].attractor = "Sun"
            /\ plotted[1].a = 6957000 + 1495978707
            /\ plotted[1].label = selected
            /\ plotted[1].label = row[1].name)
    /\ [][ (plotted # <<>> /\ plotted' # <<>>) =>
               OrbitElements(plotted'[1]) = OrbitElements(plotted[1]) ]_vars
    /\ [](orbit # <<>> => orbit = plotted)

\* the user picked a record other than the default one, whose own elements
\* are not those of the orbit plotted
Wit_C9_OtherSelection ==
    /\ plotted # <<>>
    /\ row # <<>>
    /\ selected # options[1]
    /\ row[1].e # 0
    /\ row[1].i # 0
    /\ row[1].a # 100
    /\ plotted[1].label = row[1].name

SelectorOk ==
    df_filt # <<>> =>
        /\ options = NameList(df_filt)
        /\ Cardinality({k \in 1..Len(df_filt) : df_filt[k].name = selected}) = 1
        /\ error # IndexError
        /\ Len(row) = 1
        /\ row[1].name = selected
        /\ row[1] \in Range(df_filt)

====
